---------------------------- MODULE Spec2Model ----------------------------
(***************************************************************************)
(* Model of wsgi.py: a Flask front end that queues a Celery task over an   *)
(* uploaded file and lets the client poll for the outcome.                 *)
(*                                                                         *)
(* Bytes and characters are natural numbers (byte values, code points).    *)
(* A str is a sequence of code points, a bytes object a sequence of byte   *)
(* values.                                                                 *)
(***************************************************************************)
EXTENDS Integers, Sequences, FiniteSets, TLC

(***************************************************************************)
(* Bounds of the model.                                                    *)
(***************************************************************************)
\* number of jobs submitted in one behaviour
MaxJobs == 2
\* number of times the broker delivers a message a second or later time
MaxRedeliveries == 1
\* number of worker processes consuming from the broker
NumWorkers == 2
\* length of the uploads the task function is applied to
MaxLen == 3
\* number of check requests the web server handles at the same time
MaxRequests == 2

(***************************************************************************)
(* Payload codec: base64.urlsafe_b64encode / urlsafe_b64decode and the     *)
(* UTF-8 conversions between str and bytes.                                *)
(***************************************************************************)

\* '=' , the base64 padding character
PadChar == 61

\* The URL-safe base64 alphabet: A-Z a-z 0-9 - _
B64Char(v) ==
    IF v < 26 THEN 65 + v
    ELSE IF v < 52 THEN 97 + (v - 26)
    ELSE IF v < 62 THEN 48 + (v - 52)
    ELSE IF v = 62 THEN 45
    ELSE 95

\* The value of a character of the alphabet; 64 for any other character.
\* urlsafe_b64decode maps '-' to '+' and '_' to '/' and then also accepts
\* '+' (43) and '/' (47) themselves.
B64Value(c) ==
    IF c >= 65 /\ c <= 90 THEN c - 65
    ELSE IF c >= 97 /\ c <= 122 THEN c - 97 + 26
    ELSE IF c >= 48 /\ c <= 57 THEN c - 48 + 52
    ELSE IF c = 45 \/ c = 43 THEN 62
    ELSE IF c = 95 \/ c = 47 THEN 63
    ELSE 64

\* Faulty variant of urlsafe_b64encode: the '=' padding of a last group of one
\* or two bytes is left out.
urlsafe_b64encode_nopad(b) ==
    [k \in 1 .. (4 * Len(b) + 2) \div 3 |->
        LET g == 3 * ((k - 1) \div 4)
            b1 == b[g + 1]
            b2 == IF g + 2 <= Len(b) THEN b[g + 2] ELSE 0
            b3 == IF g + 3 <= Len(b) THEN b[g + 3] ELSE 0
        IN
        IF (k - 1) % 4 = 0 THEN B64Char(b1 \div 4)
        ELSE IF (k - 1) % 4 = 1 THEN B64Char((b1 % 4) * 16 + (b2 \div 16))
        ELSE IF (k - 1) % 4 = 2 THEN B64Char((b2 % 16) * 4 + (b3 \div 64))
        ELSE B64Char(b3 % 64)]

\* urlsafe_b64encode(contents): each group of three bytes becomes four
\* characters; a last group of one or two bytes is zero-filled and its
\* unused characters are '='. Character k belongs to group (k - 1) \div 4.
urlsafe_b64encode(b) ==
    [k \in 1 .. 4 * ((Len(b) + 2) \div 3) |->
        LET g == 3 * ((k - 1) \div 4)
            b1 == b[g + 1]
            b2 == IF g + 2 <= Len(b) THEN b[g + 2] ELSE 0
            b3 == IF g + 3 <= Len(b) THEN b[g + 3] ELSE 0
        IN
        IF (k - 1) % 4 = 0 THEN B64Char(b1 \div 4)
        ELSE IF (k - 1) % 4 = 1 THEN B64Char((b1 % 4) * 16 + (b2 \div 16))
        ELSE IF (k - 1) % 4 = 2 THEN
            IF g + 2 > Len(b) THEN PadChar
            ELSE B64Char((b2 % 16) * 4 + (b3 \div 64))
        ELSE
            IF g + 3 > Len(b) THEN PadChar ELSE B64Char(b3 % 64)]

\* binascii.a2b_base64 in its default, non-strict mode, as urlsafe_b64decode
\* calls it: characters outside the alphabet are skipped, a pad sequence that
\* completes a quad ends the parse, and data left in an incomplete quad
\* raises binascii.Error.
\*   i: next position, quad: position in the current quad, left: bits carried,
\*   pads: pad characters seen in a row, out: bytes decoded so far.
RECURSIVE a2b_base64(_, _, _, _, _, _)
a2b_base64(s, i, quad, left, pads, out) ==
    IF i > Len(s) THEN
        IF quad # 0 THEN [raised |-> TRUE, data |-> << >>]
        ELSE [raised |-> FALSE, data |-> out]
    ELSE IF s[i] = PadChar THEN
        IF quad >= 2 /\ quad + pads + 1 >= 4
        THEN [raised |-> FALSE, data |-> out]
        ELSE a2b_base64(s, i + 1, quad, left,
                        IF quad >= 2 THEN pads + 1 ELSE pads, out)
    ELSE IF B64Value(s[i]) >= 64 THEN
        a2b_base64(s, i + 1, quad, left, pads, out)
    ELSE
        LET v == B64Value(s[i]) IN
        IF quad = 0 THEN a2b_base64(s, i + 1, 1, v, 0, out)
        ELSE IF quad = 1 THEN
            a2b_base64(s, i + 1, 2, v % 16, 0,
                       Append(out, left * 4 + (v \div 16)))
        ELSE IF quad = 2 THEN
            a2b_base64(s, i + 1, 3, v % 4, 0,
                       Append(out, left * 16 + (v \div 4)))
        ELSE
            a2b_base64(s, i + 1, 0, 0, 0, Append(out, left * 64 + v))

\* urlsafe_b64decode(s) for a bytes argument s.
urlsafe_b64decode(s) == a2b_base64(s, 1, 0, 0, 0, << >>)

\* A UTF-8 continuation byte, 10xxxxxx.
IsCont(x) == x >= 128 /\ x <= 191

\* bytes.decode("utf-8"), strict: the code points, or UnicodeDecodeError.
RECURSIVE utf8_decode(_, _, _)
utf8_decode(b, i, out) ==
    LET n == Len(b)
        bad == [raised |-> TRUE, text |-> << >>]
        c2 == IF i + 1 <= n THEN b[i + 1] ELSE 0
        c3 == IF i + 2 <= n THEN b[i + 2] ELSE 0
        c4 == IF i + 3 <= n THEN b[i + 3] ELSE 0
    IN
    IF i > n THEN [raised |-> FALSE, text |-> out]
    ELSE IF b[i] < 128 THEN utf8_decode(b, i + 1, Append(out, b[i]))
    ELSE IF b[i] >= 194 /\ b[i] <= 223 THEN
        IF IsCont(c2)
        THEN utf8_decode(b, i + 2, Append(out, (b[i] - 192) * 64 + (c2 - 128)))
        ELSE bad
    ELSE IF b[i] >= 224 /\ b[i] <= 239 THEN
        IF /\ IsCont(c2) /\ IsCont(c3)
           /\ (b[i] = 224 => c2 >= 160)
           /\ (b[i] = 237 => c2 <= 159)
        THEN utf8_decode(b, i + 3,
                 Append(out, (b[i] - 224) * 4096 + (c2 - 128) * 64 + (c3 - 128)))
        ELSE bad
    ELSE IF b[i] >= 240 /\ b[i] <= 244 THEN
        IF /\ IsCont(c2) /\ IsCont(c3) /\ IsCont(c4)
           /\ (b[i] = 240 => c2 >= 144)
           /\ (b[i] = 244 => c2 <= 143)
        THEN utf8_decode(b, i + 4,
                 Append(out, (b[i] - 240) * 262144 + (c2 - 128) * 4096
                             + (c3 - 128) * 64 + (c4 - 128)))
        ELSE bad
    ELSE bad

\* str.encode('utf-8') of one code point (surrogates are not in the inputs).
utf8_encode_char(c) ==
    IF c < 128 THEN << c >>
    ELSE IF c < 2048 THEN << 192 + (c \div 64), 128 + (c % 64) >>
    ELSE IF c < 65536 THEN
        << 224 + (c \div 4096), 128 + ((c \div 64) % 64), 128 + (c % 64) >>
    ELSE << 240 + (c \div 262144), 128 + ((c \div 4096) % 64),
            128 + ((c \div 64) % 64), 128 + (c % 64) >>

\* str.encode('utf-8'), from character i on
RECURSIVE utf8_encode_from(_, _)
utf8_encode_from(s, i) ==
    IF i > Len(s) THEN << >>
    ELSE utf8_encode_char(s[i]) \o utf8_encode_from(s, i + 1)

\* str.encode('utf-8')
utf8_encode(s) == utf8_encode_from(s, 1)

\* str.count(ch)
str_count(s, ch) == Cardinality({ i \in 1 .. Len(s) : s[i] = ch })

\* handle_form: the upload's bytes, base64-encoded and decoded to a str.
\* The encoder's output is ASCII, so decode("utf-8") cannot raise.
handle_form(contents) == utf8_decode(urlsafe_b64encode(contents), 1, << >>).text


(***************************************************************************)
(* Values handled by the task queue and the result backend.                *)
(***************************************************************************)

\* Job identifiers (Celery task ids), in the order they are issued.
Ids == 1 .. MaxJobs

\* Python values a task result can be: None, the statistics mapping, the
\* message string, or the exception instance of a failed task.
None == [kind |-> "None", lines |-> 0, characters |-> 0, text |-> ""]
Stats(l, c) == [kind |-> "dict", lines |-> l, characters |-> c, text |-> ""]
Str(t) == [kind |-> "str", lines |-> 0, characters |-> 0, text |-> t]
Exc(t) == [kind |-> "exception", lines |-> 0, characters |-> 0, text |-> t]

\* What the result backend answers for an identifier it holds nothing for.
NoMeta == [status |-> "PENDING", result |-> None]

\* Faulty variant of my_task_body: the characters are counted on the decoded bytes
\* (len of the bytes object) instead of on the text.
my_task_body_bytes(contents) ==
    LET raw == urlsafe_b64decode(utf8_encode(contents)) IN
    IF raw.raised THEN [raised |-> TRUE, rv |-> Exc("binascii.Error")]
    ELSE LET dec == utf8_decode(raw.data, 1, << >>) IN
         IF dec.raised THEN [raised |-> FALSE, rv |-> Str("failed to decode.")]
         ELSE [raised |-> FALSE,
               rv |-> Stats(str_count(dec.text, 10), Len(raw.data))]

\* Lines 156-164 of my_task: decode the payload and take the statistics.
\* Only UnicodeDecodeError is caught; binascii.Error from the base64 step
\* leaves the task as an exception.
my_task_body(contents) ==
    LET raw == urlsafe_b64decode(utf8_encode(contents)) IN
    IF raw.raised THEN [raised |-> TRUE, rv |-> Exc("binascii.Error")]
    ELSE LET dec == utf8_decode(raw.data, 1, << >>) IN
         IF dec.raised THEN [raised |-> FALSE, rv |-> Str("failed to decode.")]
         ELSE [raised |-> FALSE,
               rv |-> Stats(str_count(dec.text, 10), Len(dec.text))]

\* random.randint(5, 10)
DelayMin == 5
DelayMax == 10
Delays == DelayMin .. DelayMax

\* Faulty variant of on_return: the return value is recorded but the state is left
\* at STARTED.
on_return_started(rv) == [status |-> "STARTED", result |-> rv]

\* The task returned rv: the worker records SUCCESS with the return value.
on_return(rv) == [status |-> "SUCCESS", result |-> rv]

\* The task raised: the worker records FAILURE with the exception.
on_raise(exc) == [status |-> "FAILURE", result |-> exc]

\* AsyncResult(task, app=celery): the handle is the identifier alone; its
\* status and result are read from the backend's entry for it.
AsyncResult(backend, task) == backend[task]

\* Faulty variant of successful: tests "has not failed" instead of "has succeeded".
successful_not_failed(meta) == meta.status # "FAILURE"

\* task.successful()
successful(meta) == meta.status = "SUCCESS"

\* The states in which the handle keeps the entry it has read; in any other
\* state every access to status or result reads the backend again.
READY_STATES == { "SUCCESS", "FAILURE" }

\* The response forms. absent marks a field the response does not carry.
NoResp == [op |-> "none", task_id |-> 0, status |-> "", has_result |-> FALSE,
           result |-> None]

\* What json.dumps can serialise of the values a task leaves: None, a str and
\* a mapping of numbers. An exception instance is not (TypeError).
JSONSerializable(v) == v.kind # "exception"

\* jsonify raised: the request ends in an internal server error and no JSON
\* answer is sent.
ServerError(task_id) ==
    [op |-> "check_error", task_id |-> task_id, status |-> "",
     has_result |-> FALSE, result |-> None]

\* check, lines 206-210: jsonify(task_id=..., status=..., result=...) on the
\* values read from the handle.
check_response(task_id, status, result) ==
    IF JSONSerializable(result)
    THEN [op |-> "check", task_id |-> task_id, status |-> status,
          has_result |-> TRUE, result |-> result]
    ELSE ServerError(task_id)

\* check, lines 212-215: jsonify(task_id=..., status=...).
check_response_successful(task_id, status) ==
    [op |-> "check", task_id |-> task_id, status |-> status,
     has_result |-> FALSE, result |-> None]

\* Faulty variant of results_response: a task that failed is reported as
\* failed instead of as not yet complete.
results_response_failed(task_id, meta) ==
    IF meta.status = "FAILURE"
    THEN [op |-> "results_failed", task_id |-> task_id, status |-> "",
          has_result |-> FALSE, result |-> None]
    ELSE IF ~successful(meta)
    THEN [op |-> "results_not_complete", task_id |-> task_id, status |-> "",
          has_result |-> FALSE, result |-> None]
    ELSE [op |-> "results_page", task_id |-> task_id, status |-> "",
          has_result |-> TRUE, result |-> meta.result]

\* results: a warning and a redirect to home unless the task succeeded,
\* else the results page rendered from the task's result.
results_response(task_id, meta) ==
    IF ~successful(meta)
    THEN [op |-> "results_not_complete", task_id |-> task_id, status |-> "",
          has_result |-> FALSE, result |-> None]
    ELSE [op |-> "results_page", task_id |-> task_id, status |-> "",
          has_result |-> TRUE, result |-> meta.result]

\* home: the page flashes the queued task's identifier.
home_response(task_id) ==
    [op |-> "home", task_id |-> task_id, status |-> "", has_result |-> FALSE,
     result |-> None]

(***************************************************************************)
(* Inputs.                                                                 *)
(***************************************************************************)

\* Uploaded file contents: "a\nb\nc", and a byte that is not UTF-8.
Uploads == { << 97, 10, 98, 10, 99 >>, << 255 >> }

\* Payload strings another producer may hand to my_task.delay: "abc" is not
\* complete base64.
RawPayloads == { << 97, 98, 99 >> }

\* Uploads on which the task is followed as a function of the file: the
\* empty file, "a", a newline, U+00E9 and a newline (three bytes, two
\* characters), two bytes that are not text, and the uploads above.
TaskUploads ==
    { << >>, << 97 >>, << 10 >>, << 195, 169, 10 >>, << 255, 195 >> } \cup Uploads

\* The argument strings my_task is called with.
Payloads == { handle_form(c) : c \in TaskUploads } \cup RawPayloads

\* my_task up to the sleep, on each of them.
my_task == [p \in Payloads |-> my_task_body(p)]

(***************************************************************************)
(* State.                                                                  *)
(***************************************************************************)
VARIABLES
    nextId,     \* the next identifier to issue
    upload,     \* identifier -> the file contents home read for it (bytes)
    payload,    \* identifier -> the message's argument (a str)
    queue,      \* identifiers whose message waits on the broker
    redelivered,\* redeliveries the broker has made so far
    running,    \* identifier -> executions of it in progress (workers in the sleep)
    backend,    \* identifier -> [status, result]: the result backend
    writes,     \* identifier -> terminal writes made to the backend
    slept,      \* the seconds slept by the step just taken, 0 for any other step
    resp,       \* the last response sent, NoResp once a worker or producer stepped
    reqs        \* the check requests in flight: next read -> identifier -> how many

vars == << nextId, upload, payload, queue, redelivered, running, backend, writes,
           slept, resp, reqs >>

\* No check request is in flight.
NoReqs == [pc \in { "status", "result" } |-> [t \in Ids |-> 0]]

Issued == 1 .. (nextId - 1)

\* The number of check requests in flight.
RECURSIVE Waiting(_, _)
Waiting(f, n) == IF n = 0 THEN 0 ELSE f[n] + Waiting(f, n - 1)
InFlight == Waiting(reqs["status"], MaxJobs) + Waiting(reqs["result"], MaxJobs)

\* The number of worker processes executing a task. The processes are
\* alike: what an execution does depends on its job alone.
Busy == Waiting(running, MaxJobs)

Init ==
    /\ nextId = 1
    /\ upload = [j \in Ids |-> << >>]
    /\ payload = [j \in Ids |-> << >>]
    /\ queue = {}
    /\ redelivered = 0
    /\ running = [j \in Ids |-> 0]
    /\ backend = [j \in Ids |-> NoMeta]
    /\ writes = [j \in Ids |-> 0]
    /\ slept = 0
    /\ resp = NoResp
    /\ reqs = NoReqs

\* Faulty variant of delay: the task is run in the caller before delay returns
\* (eager execution) and its outcome is stored at once.
delay_eager(contents) ==
    /\ nextId <= MaxJobs
    /\ payload' = [payload EXCEPT ![nextId] = contents]
    /\ queue' = queue \cup {nextId}
    /\ nextId' = nextId + 1
    /\ slept' = 0
    /\ UNCHANGED reqs
    /\ backend' = [backend EXCEPT
                      ![nextId] = IF my_task[contents].raised
                                  THEN on_raise(my_task[contents].rv)
                                  ELSE on_return(my_task[contents].rv)]
    /\ UNCHANGED << redelivered, running, writes >>

\* my_task.delay(contents): publish the message under a fresh identifier
\* and return at once with the handle; the backend is not written.
delay(contents) ==
    /\ nextId <= MaxJobs
    /\ payload' = [payload EXCEPT ![nextId] = contents]
    /\ queue' = queue \cup {nextId}
    /\ nextId' = nextId + 1
    /\ slept' = 0
    /\ UNCHANGED reqs
    /\ UNCHANGED << redelivered, running, backend, writes >>

\* home, on a valid form: encode the upload, queue the task, show its id.
home(contents) ==
    /\ delay(handle_form(contents))
    /\ upload' = [upload EXCEPT ![nextId] = contents]
    /\ resp' = home_response(nextId)

\* A producer other than home queues the task with an argument of its own.
Produce(contents) ==
    /\ delay(contents)
    /\ UNCHANGED upload
    /\ resp' = NoResp

\* Faulty variant of store_result: the entry is written under a fixed key.
store_result_fixed_key(task, meta) == [backend EXCEPT ![1] = meta]

\* The backend after a worker stored meta for task.
store_result(task, meta) == [backend EXCEPT ![task] = meta]

\* Faulty variant of Start: an exception of the task escapes the worker,
\* which drops the message with nothing stored.
Start_drops(j) ==
    /\ Busy < NumWorkers
    /\ j \in queue
    /\ queue' = queue \ {j}
    /\ LET r == my_task[payload[j]] IN
       IF r.raised
       THEN /\ UNCHANGED << backend, writes >>
            /\ running' = running
       ELSE /\ running' = [running EXCEPT ![j] = @ + 1]
            /\ UNCHANGED << backend, writes >>
    /\ slept' = 0
    /\ UNCHANGED reqs
    /\ resp' = NoResp
    /\ UNCHANGED << nextId, upload, payload, redelivered >>

\* A worker process that is free takes the message of job j and runs
\* my_task up to the sleep, where it stays until Return. A task that raises
\* ends here: FAILURE is stored with the exception.
Start(j) ==
    /\ Busy < NumWorkers
    /\ j \in queue
    /\ queue' = queue \ {j}
    /\ LET r == my_task[payload[j]] IN
       IF r.raised
       THEN /\ backend' = store_result(j, on_raise(r.rv))
            /\ writes' = [writes EXCEPT ![j] = @ + 1]
            /\ running' = running
       ELSE /\ running' = [running EXCEPT ![j] = @ + 1]
            /\ UNCHANGED << backend, writes >>
    /\ slept' = 0
    /\ UNCHANGED reqs
    /\ resp' = NoResp
    /\ UNCHANGED << nextId, upload, payload, redelivered >>

\* time.sleep(random.randint(5, 10)) ends after d seconds in an execution
\* of job j and the task returns rv: the worker stores SUCCESS with the
\* return value.
Return(j, d) ==
    /\ running[j] > 0
    /\ slept' = d
    /\ UNCHANGED reqs
    /\ backend' = store_result(j, on_return(my_task[payload[j]].rv))
    /\ writes' = [writes EXCEPT ![j] = @ + 1]
    /\ running' = [running EXCEPT ![j] = @ - 1]
    /\ resp' = NoResp
    /\ UNCHANGED << nextId, upload, payload, queue, redelivered >>

\* A worker process dies while running job j: nothing is stored.
Crash(j) ==
    /\ running[j] > 0
    /\ running' = [running EXCEPT ![j] = @ - 1]
    /\ slept' = 0
    /\ UNCHANGED reqs
    /\ resp' = NoResp
    /\ UNCHANGED << nextId, upload, payload, queue, redelivered, backend, writes >>

\* The broker delivers again a message it has delivered before
\* (at-least-once delivery): an issued message that is no longer queued.
Redeliver(j) ==
    /\ j \in Issued
    /\ j \notin queue
    /\ redelivered < MaxRedeliveries
    /\ redelivered' = redelivered + 1
    /\ queue' = queue \cup {j}
    /\ slept' = 0
    /\ UNCHANGED reqs
    /\ resp' = NoResp
    /\ UNCHANGED << nextId, upload, payload, running, backend, writes >>

\* Faulty variant of check: a task found unfinished is given up on, and the
\* handler stores FAILURE for it.
check_timeout(task) ==
    /\ LET meta == AsyncResult(backend, task) IN
       IF meta.status \in READY_STATES
       THEN /\ resp' = IF successful(meta)
                       THEN check_response_successful(task, meta.status)
                       ELSE check_response(task, meta.status, meta.result)
            /\ UNCHANGED << reqs, backend >>
       ELSE /\ InFlight < MaxRequests
            /\ reqs' = [reqs EXCEPT !["status"][task] = @ + 1]
            /\ resp' = resp
            /\ backend' = store_result(task, on_raise(Exc("TimeoutError")))
    /\ slept' = 0
    /\ UNCHANGED << nextId, upload, payload, queue, redelivered, running, writes >>

\* Faulty variant of check: the handler keeps track of the identifiers home
\* gave out and answers UNKNOWN for any other.
check_known(task) ==
    /\ LET meta == AsyncResult(backend, task) IN
       IF task \notin Issued
       THEN /\ resp' = check_response(task, "UNKNOWN", None)
            /\ reqs' = reqs
       ELSE IF meta.status \in READY_STATES
       THEN /\ resp' = IF successful(meta)
                       THEN check_response_successful(task, meta.status)
                       ELSE check_response(task, meta.status, meta.result)
            /\ reqs' = reqs
       ELSE /\ InFlight < MaxRequests
            /\ reqs' = [reqs EXCEPT !["status"][task] = @ + 1]
            /\ resp' = resp
    /\ slept' = 0
    /\ UNCHANGED << nextId, upload, payload, queue, redelivered, running, backend,
                    writes >>

\* GET /check/<task>, up to task.successful() at line 205: the handle reads
\* the backend. An entry in a ready state is kept by the handle, and the
\* status and result of the answer come from it, so the request ends here.
\* Otherwise nothing is kept and the request goes on to read the status.
\* The server handles requests in threads of their own: a check can begin
\* while others are between their reads.
check(task) ==
    /\ LET meta == AsyncResult(backend, task) IN
       IF meta.status \in READY_STATES
       THEN /\ resp' = IF successful(meta)
                       THEN check_response_successful(task, meta.status)
                       ELSE check_response(task, meta.status, meta.result)
            /\ reqs' = reqs
       ELSE /\ InFlight < MaxRequests
            /\ reqs' = [reqs EXCEPT !["status"][task] = @ + 1]
            /\ resp' = resp
    /\ slept' = 0
    /\ UNCHANGED << nextId, upload, payload, queue, redelivered, running, backend,
                    writes >>

\* check at line 208, task.status, in a request for task that read no ready
\* entry at line 205: the handle reads the backend again. An entry that is
\* ready by now also supplies the result; otherwise the request goes on to
\* read the result.
check_status(task) ==
    /\ reqs["status"][task] > 0
    /\ LET meta == AsyncResult(backend, task) IN
       IF meta.status \in READY_STATES
       THEN /\ resp' = check_response(task, meta.status, meta.result)
            /\ reqs' = [reqs EXCEPT !["status"][task] = @ - 1]
       ELSE /\ reqs' = [reqs EXCEPT !["status"][task] = @ - 1,
                                    !["result"][task] = @ + 1]
            /\ resp' = resp
    /\ slept' = 0
    /\ UNCHANGED << nextId, upload, payload, queue, redelivered, running, backend,
                    writes >>

\* check at line 209, task.result, in a request for task that read PENDING
\* as the status: a third read of the backend, and the answer goes out with
\* the status read before.
check_result(task) ==
    /\ reqs["result"][task] > 0
    /\ resp' = check_response(task, "PENDING", AsyncResult(backend, task).result)
    /\ reqs' = [reqs EXCEPT !["result"][task] = @ - 1]
    /\ slept' = 0
    /\ UNCHANGED << nextId, upload, payload, queue, redelivered, running, backend,
                    writes >>

\* Faulty variant of results: a task found unfinished is marked as failed
\* before the redirect.
results_mark_failed(task) ==
    /\ resp' = results_response(task, AsyncResult(backend, task))
    /\ slept' = 0
    /\ UNCHANGED reqs
    /\ backend' = IF successful(AsyncResult(backend, task))
                  THEN backend
                  ELSE store_result(task, on_raise(Exc("not yet complete")))
    /\ UNCHANGED << nextId, upload, payload, queue, redelivered, running, writes >>

\* Faulty variant of results: once the results page has been rendered the
\* task's entry is removed from the backend (task.forget()).
results_forget(task) ==
    /\ resp' = results_response(task, AsyncResult(backend, task))
    /\ slept' = 0
    /\ UNCHANGED reqs
    /\ backend' = IF successful(AsyncResult(backend, task))
                  THEN store_result(task, NoMeta)
                  ELSE backend
    /\ UNCHANGED << nextId, upload, payload, queue, redelivered, running, writes >>

\* GET /results/<task>
results(task) ==
    /\ resp' = results_response(task, AsyncResult(backend, task))
    /\ slept' = 0
    /\ UNCHANGED reqs
    /\ UNCHANGED << nextId, upload, payload, queue, redelivered, running, backend,
                    writes >>

\* The system with the faults of the broker and the workers: submissions,
\* executions, crashes, redeliveries and result fetches. The status check,
\* whose reads interleave with the workers' steps, is in PollSpec below.
Next ==
    \/ \E c \in Uploads : home(c)
    \/ \E p \in RawPayloads : Produce(p)
    \/ \E j \in Ids : Start(j)
    \/ \E j \in Ids, d \in Delays : Return(j, d)
    \/ \E j \in Ids : Crash(j)
    \/ \E j \in Ids : Redeliver(j)
    \/ \E t \in Ids : results(t)

Spec == Init /\ [][Next]_vars

\* The fault-free system under fair scheduling: no worker crashes and the
\* broker delivers every message once; a worker that can take a message
\* eventually takes one, and a sleeping task eventually returns. Polling
\* reads only and is left out.
NextLive ==
    \/ \E c \in Uploads : home(c)
    \/ \E p \in RawPayloads : Produce(p)
    \/ \E j \in Ids : Start(j)
    \/ \E j \in Ids, d \in Delays : Return(j, d)

LiveSpec ==
    /\ Init
    /\ [][NextLive]_vars
    /\ WF_vars(\E j \in Ids : Start(j))
    /\ WF_vars(\E j \in Ids, d \in Delays : Return(j, d))

\* The task as a function of the upload: each request brings a file of its
\* own out of TaskUploads, and the jobs are executed and their results
\* fetched.
TaskNext ==
    \/ \E c \in TaskUploads : home(c)
    \/ \E j \in Ids : Start(j)
    \/ \E j \in Ids, d \in Delays : Return(j, d)
    \/ \E t \in Ids : results(t)

TaskSpec == Init /\ [][TaskNext]_vars

\* The status check against the workers: a check request reads the backend
\* up to three times, and the workers' steps, submissions and result fetches
\* come between its reads. The broker loses and repeats nothing here.
PollNext ==
    \/ \E c \in Uploads : home(c)
    \/ \E p \in RawPayloads : Produce(p)
    \/ \E j \in Ids : Start(j)
    \/ \E j \in Ids, d \in Delays : Return(j, d)
    \/ \E t \in Ids : check(t)
    \/ \E t \in Ids : check_status(t)
    \/ \E t \in Ids : check_result(t)
    \/ \E t \in Ids : results(t)

PollSpec == Init /\ [][PollNext]_vars


(***************************************************************************)
(* Properties.                                                             *)
(***************************************************************************)

Terminal == { "SUCCESS", "FAILURE" }

\* The payload does not decode: the base64 step or the UTF-8 step fails.
DecodeFails(p) ==
    LET raw == urlsafe_b64decode(utf8_encode(p)) IN
    raw.raised \/ utf8_decode(raw.data, 1, << >>).raised

\* The backend entry one complete execution of my_task on payload p leaves.
OneExecution(p) ==
    LET r == my_task_body(p) IN
    IF r.raised THEN on_raise(r.rv) ELSE on_return(r.rv)

\* Occurrences of byte x in the byte sequence b.
CountByte(b, x) == Cardinality({ i \in 1 .. Len(b) : b[i] = x })

\* Characters of well-formed UTF-8: the bytes that start one, i.e. all but
\* the continuation bytes.
CountLeading(b) == Cardinality({ i \in 1 .. Len(b) : ~IsCont(b[i]) })

\* The jobs home queued (not those of another producer).
Uploaded(j) == j \in Issued /\ payload[j] = handle_form(upload[j])

\* The answers of check: the JSON answer, or the server error.
CheckOps == { "check", "check_error" }

\* C1 (as claimed). Monotonic state: once the backend holds SUCCESS or
\* FAILURE for an identifier, no step changes that state, and every check
\* of the identifier made from then on answers with that same state.
C1_MonotonicState ==
    [][\A j \in Ids :
          backend[j].status \in Terminal =>
              /\ backend'[j].status = backend[j].status
              /\ (/\ reqs' = reqs
                  /\ resp'.op \in CheckOps /\ resp'.task_id = j)
                     => (resp'.op = "check"
                            /\ resp'.status = backend[j].status)]_vars

\* C2 (as claimed). Every executed job whose payload fails to decode is
\* settled FAILURE with a non-empty message as its result.
C2_DecodeFailureIsFailure ==
    \A j \in Ids :
        (writes[j] > 0 /\ DecodeFails(payload[j])) =>
            /\ backend[j].status = "FAILURE"
            /\ backend[j].result.text # ""

\* C3 (as claimed). No execution of the task ends by raising: no backend
\* entry holds an exception as the task's result.
C3_NoDecodeFaultEscapes ==
    \A j \in Ids : backend[j].result.kind # "exception"

\* C4 (as claimed). The backend receives exactly one terminal write per
\* identifier: never a second one.
C4_ExactlyOneWrite ==
    \A j \in Ids : writes[j] <= 1

\* C5. Idempotent settlement: whatever the number and interleaving of a
\* job's executions, its backend entry is the state and result one
\* execution of its payload leaves.
C5_IdempotentSettlement ==
    \A j \in Ids :
        /\ writes[j] >= 1 => backend[j] = OneExecution(payload[j])
        /\ writes[j] = 0 => backend[j] = NoMeta

\* C5 witness: a job is settled by one worker while another worker still
\* runs the same job, next to a second job with another payload.
C5_Witness ==
    \E j \in Ids :
        /\ writes[j] = 1
        /\ running[j] > 0
        /\ \E k \in Issued : payload[k] # payload[j]

\* C6. Eventual completion: every job home queued whose content decodes
\* eventually has status SUCCESS; "a\nb\nc" yields {lines: 2, characters: 5}.
C6_EventualSuccess ==
    \A j \in Ids :
        /\ (Uploaded(j) /\ ~DecodeFails(payload[j]))
               ~> (backend[j].status = "SUCCESS")
        /\ (j \in Issued /\ payload[j] = handle_form(<< 97, 10, 98, 10, 99 >>))
               ~> (backend[j] = on_return(Stats(2, 5)))

\* C6 witness: the upload "a\nb\nc" is settled SUCCESS with lines 2,
\* characters 5.
C6_Witness ==
    \E j \in Ids :
        /\ upload[j] = << 97, 10, 98, 10, 99 >>
        /\ backend[j].status = "SUCCESS"
        /\ backend[j].result = Stats(2, 5)

\* Bytes the byte sequences below are made of: newline, 'a', the two bytes
\* of U+00E9, and a byte that occurs in no UTF-8 text.
ByteAlphabet == { 10, 97, 195, 169, 255 }

\* The byte sequences of length at most n over ByteAlphabet.
RECURSIVE ByteSeqs(_)
ByteSeqs(n) ==
    IF n = 0 THEN { << >> }
    ELSE LET shorter == ByteSeqs(n - 1) IN
         shorter \cup { Append(b, x) : b \in shorter, x \in ByteAlphabet }

\* my_task on the payload handle_form makes of every byte sequence of
\* length at most MaxLen that is well-formed UTF-8: it returns the mapping
\* of the newline bytes and the characters.
TaskValues ==
    \A b \in ByteSeqs(MaxLen) :
        ~DecodeFails(handle_form(b)) =>
            my_task_body(handle_form(b))
                = [raised |-> FALSE,
                   rv |-> Stats(CountByte(b, 10), CountLeading(b))]

\* C7. Result value: for an upload that is well-formed UTF-8 the stored
\* result is the mapping of the number of newline bytes and the number of
\* characters, whatever the other jobs carry and however long the sleep;
\* for the empty upload {lines: 0, characters: 0}. The task computes this
\* mapping on every well-formed byte sequence of length at most MaxLen.
C7_ResultValue ==
    /\ \A j \in Ids :
           (Uploaded(j) /\ writes[j] >= 1 /\ ~DecodeFails(payload[j])) =>
               /\ backend[j].status = "SUCCESS"
               /\ backend[j].result =
                      Stats(CountByte(upload[j], 10), CountLeading(upload[j]))
               /\ (upload[j] = << >> => backend[j].result = Stats(0, 0))
    /\ TaskValues

\* C7 witness: an upload with a two-byte character and a newline is
\* settled: three bytes, two characters, one line; and the job of another
\* file, "a", is settled with a result of its own.
C7_Witness ==
    \E j \in Ids : \E k \in Ids :
        /\ upload[j] = << 195, 169, 10 >>
        /\ backend[j] = on_return(Stats(1, 2))
        /\ upload[k] = << 97 >>
        /\ backend[k] = on_return(Stats(0, 1))

\* C8. Unready result: results on an identifier whose state is PENDING
\* answers "not yet complete" and carries no result value.
C8_UnreadyResult ==
    (resp.op \in { "results_not_complete", "results_page" }
         /\ backend[resp.task_id].status = "PENDING")
        => (resp.op = "results_not_complete" /\ ~resp.has_result
            /\ resp.result = None)

\* C8 witness: results was asked for a queued job that is still PENDING.
C8_Witness ==
    /\ resp.op = "results_not_complete"
    /\ resp.task_id \in queue
    /\ backend[resp.task_id].status = "PENDING"

\* C9 (as claimed). Status result field: a check answer carries a non-null
\* result only with a terminal state; an answer whose state is PENDING has
\* a null result.
C9_StatusResultField ==
    resp.op = "check" =>
        /\ (resp.has_result /\ resp.result # None) => resp.status \in Terminal
        /\ resp.status = "PENDING" => resp.result = None

\* C10. Non-blocking submit: home can queue a job whatever the workers are
\* doing, and right after it the job is queued, PENDING and without result.
C10_NonBlockingSubmit ==
    /\ nextId <= MaxJobs => ENABLED (\E c \in Uploads : home(c))
    /\ resp.op = "home" =>
           /\ resp.task_id \in queue
           /\ backend[resp.task_id] = NoMeta
           /\ writes[resp.task_id] = 0

\* C10 witness: home has just queued a job while every worker is busy.
C10_Witness ==
    /\ resp.op = "home"
    /\ Busy = NumWorkers

\* The worker has received job j, whose payload does not decode.
ReceivedCorrupted(j) ==
    j \in Issued /\ j \notin queue /\ DecodeFails(payload[j])

\* C11. Decode-failure isolation: once a worker has received a job whose
\* payload does not decode, every submitted job, that one and the ones
\* delivered afterwards, is still executed and eventually settled, and the
\* workers come back to idle.
C11_DecodeFailureIsolation ==
    \A j \in Ids : \A k \in Ids :
        (ReceivedCorrupted(j) /\ k \in Issued)
            ~> (backend[k].status \in Terminal /\ Busy = 0)

\* C11 witness: a job whose payload is not base64 has been settled as a
\* failure, and a job submitted after it has been executed through the sleep.
C11_Witness ==
    \E j \in Ids : \E k \in Ids :
        /\ j < k
        /\ ReceivedCorrupted(j)
        /\ backend[j].status = "FAILURE"
        /\ backend[k].status = "SUCCESS"
        /\ slept \in Delays

\* Decoding as my_task does it the transport string handle_form makes of
\* a byte sequence gives the sequence back, for every byte sequence of
\* length at most MaxLen.
CodecRoundTrips ==
    \A b \in ByteSeqs(MaxLen) :
        urlsafe_b64decode(utf8_encode(handle_form(b)))
            = [raised |-> FALSE, data |-> b]

\* C12. Codec round trip: for every uploaded byte sequence, the empty one
\* and binary ones included, the bytes my_task decodes from the transport
\* string handle_form made are exactly the uploaded bytes, and the base64
\* step does not fail; so it is for every byte sequence of length at most
\* MaxLen.
C12_CodecRoundTrip ==
    /\ \A j \in Ids :
           Uploaded(j) =>
               urlsafe_b64decode(utf8_encode(payload[j]))
                   = [raised |-> FALSE, data |-> upload[j]]
    /\ CodecRoundTrips

\* C12 witness: an upload of two bytes that are not text, encoded with
\* padding, has been taken by a worker and decoded, next to the job of
\* another file, the empty one.
C12_Witness ==
    \E j \in Ids : \E k \in Ids :
        /\ Uploaded(j)
        /\ upload[j] = << 255, 195 >>
        /\ payload[j][Len(payload[j])] = PadChar
        /\ writes[j] >= 1
        /\ Uploaded(k)
        /\ k # j
        /\ upload[k] = << >>
        /\ writes[k] >= 1

\* A worker ends an execution of job j in this step with a write to the
\* backend: the task returns after the sleep, or it raises when started.
TerminalWrite(j) ==
    /\ writes' = [writes EXCEPT ![j] = @ + 1]
    /\ backend'[j].status \in Terminal
    /\ resp' = NoResp
    /\ \/ /\ running[j] > 0
          /\ running' = [running EXCEPT ![j] = @ - 1]
          /\ backend'[j] = on_return(my_task[payload[j]].rv)
       \/ /\ running' = running
          /\ j \in queue
          /\ j \notin queue'

\* C13. Single exit from PENDING: the stored state of a job leaves PENDING
\* only in a step in which a worker ends an execution of that job with its
\* terminal write; a submission, a status check or a result fetch leaves
\* every stored state as it was.
C13_SingleExitFromPending ==
    [][ /\ \A j \in Ids :
              (backend[j].status = "PENDING" /\ backend'[j].status # "PENDING")
                  => TerminalWrite(j)
        /\ resp' # NoResp => backend' = backend ]_vars

\* C13 witness: a job has just left PENDING by a worker's write after the
\* sleep, and another submitted job is still PENDING.
C13_Witness ==
    \E j \in Ids : \E k \in Issued :
        /\ writes[j] = 1
        /\ slept \in Delays
        /\ backend[j].status = "SUCCESS"
        /\ backend[k].status = "PENDING"

\* Job j was received by a worker that died before storing anything: the
\* message is gone from the broker, no worker is running it, and no
\* execution of it has ended.
Lost(j) ==
    /\ j \in Issued
    /\ j \notin queue
    /\ running[j] = 0
    /\ writes[j] = 0

\* C14. Crash before settlement: after the worker that received a job has
\* died before the terminal write, the job's stored state is PENDING, and it
\* stays so in every step other than a redelivery of its message by the
\* broker, whatever is submitted, executed or queried meanwhile.
C14_CrashBeforeSettlement ==
    [][ \A j \in Ids :
            Lost(j) =>
                /\ backend[j] = NoMeta
                /\ (j \notin queue' => (Lost(j)' /\ backend'[j] = NoMeta)) ]_vars

\* C14 witness: the result of a job lost in a crash is asked for, after the
\* broker's redeliveries are used up, and the job is reported unfinished.
C14_Witness ==
    \E j \in Ids :
        /\ Lost(j)
        /\ redelivered = MaxRedeliveries
        /\ resp.op = "results_not_complete" /\ resp.task_id = j

\* The responses of check and of results, and the handler a response is of.
QueryOps == { "check", "check_error", "results_not_complete", "results_page" }
Handler(r) == IF r.op \in CheckOps THEN "check" ELSE "results"

\* The reads behind a check answer agree with one another: no write of a
\* worker came between them.
Coherent(r) ==
    r.op = "check" =>
        /\ r.status = "PENDING" => r.result = None
        /\ r.status = "SUCCESS" => ~r.has_result

\* The request answered in this step read the backend with no write of a
\* worker to its job between its reads: it is answered at its first read,
\* or its job is PENDING still.
Undisturbed ==
    reqs' = reqs \/ backend[resp'.task_id].status = "PENDING"

\* C15. Polling is read-only: every step of a check or results request
\* leaves the backend, the broker's queue, the payloads and the workers
\* unchanged, and of two queries on the same identifier answered one after
\* the other, with no worker step since the first read of either, the
\* second gets the answer of the first.
C15_PollingReadOnly ==
    [][ (resp'.op \in QueryOps \/ reqs' # reqs)
        => /\ UNCHANGED << nextId, upload, payload, queue, redelivered, running,
                           backend, writes >>
           /\ (/\ resp'.op \in QueryOps
               /\ Undisturbed
               /\ resp.op \in QueryOps
               /\ Coherent(resp)
               /\ Handler(resp) = Handler(resp')
               /\ resp.task_id = resp'.task_id) => resp' = resp ]_vars

\* C15 witness: a check of a running job has been answered PENDING after
\* its three reads of the backend, while another check of the same job is
\* between its reads and another job waits in the queue.
C15_Witness ==
    /\ resp.op = "check"
    /\ resp.status = "PENDING"
    /\ resp.task_id \in Issued
    /\ reqs["result"][resp.task_id] > 0
    /\ queue # {}
    /\ running[resp.task_id] > 0

\* C16 (as claimed). Delay precedes every settlement: every step in which a
\* worker stores a terminal state for a job ends a sleep of 5 to 10 whole
\* seconds, whether the payload decoded or not.
C16_DelayPrecedesSettlement ==
    [][ \A j \in Ids :
            writes'[j] > writes[j] => slept' \in Delays ]_vars

\* C17 (as claimed). A check of a job that is PENDING or FAILURE is
\* answered with the identifier, the state and the result field; an answer
\* whose state is SUCCESS carries the identifier and the state alone.
C17_CheckResultField ==
    resp.op \in CheckOps =>
        /\ backend[resp.task_id].status \in { "PENDING", "FAILURE" }
               => (resp.op = "check" /\ resp.has_result)
        /\ resp.status = "SUCCESS" => ~resp.has_result

\* The responses of results.
ResultsOps == { "results_not_complete", "results_page", "results_failed" }

\* C18. results renders a job's result if and only if its state is SUCCESS;
\* for a FAILURE job the response is the one a PENDING job gets, the "not
\* yet complete" warning with the redirect and no result, so a failed job
\* is never reported as failed.
C18_ResultsOnlyOnSuccess ==
    resp.op \in ResultsOps =>
        LET meta == backend[resp.task_id] IN
        /\ resp.op = "results_page" <=> meta.status = "SUCCESS"
        /\ resp.op = "results_page" => (resp.has_result /\ resp.result = meta.result)
        /\ meta.status \in { "PENDING", "FAILURE" } =>
               resp = [op |-> "results_not_complete", task_id |-> resp.task_id,
                       status |-> "", has_result |-> FALSE, result |-> None]

\* C18 witness: results was asked for a job whose task raised and is stored
\* as FAILURE, and answered "not yet complete".
C18_Witness ==
    /\ resp.op = "results_not_complete"
    /\ backend[resp.task_id].status = "FAILURE"
    /\ backend[resp.task_id].result = Exc("binascii.Error")

\* What a client is told about an unfinished job t: by check, the state
\* PENDING with a null result; by results, "not yet complete".
PendingAnswer(op, t) ==
    IF op = "check"
    THEN [op |-> "check", task_id |-> t, status |-> "PENDING",
          has_result |-> TRUE, result |-> None]
    ELSE [op |-> "results_not_complete", task_id |-> t, status |-> "",
          has_result |-> FALSE, result |-> None]

\* C19. Unknown identifiers: check and results asked for an identifier that
\* was never submitted answer exactly as for a submitted job no execution
\* of which has ended: PENDING with a null result, or "not yet complete".
\* Apart from the identifier sent back, the two answers are the same.
C19_UnknownLikePending ==
    (resp.op \in QueryOps
         /\ (resp.task_id \notin Issued \/ writes[resp.task_id] = 0))
        => resp = PendingAnswer(resp.op, resp.task_id)

\* C19 witness: check was asked for an identifier never submitted, while a
\* submitted job is waiting in the queue, and answered PENDING.
C19_Witness ==
    /\ resp.op = "check"
    /\ resp.task_id \notin Issued
    /\ resp.status = "PENDING"
    /\ queue # {}

=============================================================================
